---- MODULE Spec2Model ----
(***************************************************************************)
(* Model of wildberries_category_scraper.py (class WildBerriesParser):     *)
(* the daily catalogue cache, the recursive flattening of the category     *)
(* tree with per-leaf facet augmentation, and the export to a workbook.    *)
(*                                                                         *)
(* JSON objects are functions from field names to values, so that          *)
(* 'key' in obj  is  "key" \in DOMAIN obj  and a missing key is a KeyError.*)
(* JSON lists are sequences.                                               *)
(***************************************************************************)
EXTENDS Integers, Sequences, FiniteSets, TLC

VARIABLES today, run_date, file, fetched, pc, tabulation, responses,
          flattened_catalogue, requests, raised, workbook

vars == <<today, run_date, file, fetched, pc, tabulation, responses,
          flattened_catalogue, requests, raised, workbook>>

(***************************************************************************)
(* Bounds of the explored inputs.                                          *)
(***************************************************************************)
MaxNodes == 3
MaxSpecial == 2
MaxItems == 2
MaxDay == 2

(***************************************************************************)
(* Program constants.                                                      *)
(***************************************************************************)
DefaultShard == 99999
ExcludedId == 130090
\* the literal of line 168 is the Cyrillic word for "Category"
CategoryLabel == "Kategoriya"
InitialLevel == 0 - 1
TabWidth == 3

NoError == "none"

(***************************************************************************)
(* Input catalogues.  A catalogue is generated from a pre-order shape (the *)
(* depth of each node) and a kind per node; every node gets its own name,  *)
(* url, query, id and shard so that records can be told apart.             *)
(***************************************************************************)
NodeNames == <<"n1", "n2", "n3", "n4", "n5", "n6", "n7", "n8">>

\* a malformed node misses one required key, the same key for all the
\* malformed nodes of one catalogue
Kinds == {"ok", "noShard", "malformed", "excluded", "emptyChilds"}

RequiredFields == {"name", "url", "query", "id"}

MissingOf(kind, f) ==
  CASE kind = "noShard"   -> {"shard"}
    [] kind = "malformed" -> {f}
    [] OTHER              -> {}

Fields(j, kind, f) ==
  [g \in ({"name", "url", "shard", "query", "id"} \ MissingOf(kind, f)) |->
     CASE g = "name"  -> NodeNames[j]
       [] g = "url"   -> 100 + j
       [] g = "shard" -> 10 + j
       [] g = "query" -> 200 + j
       [] OTHER       -> IF kind = "excluded" THEN ExcludedId ELSE j]

\* index of the last node of the subtree rooted at node j
RECURSIVE SubtreeEnd(_, _, _)
SubtreeEnd(depths, j, e) ==
  IF e < Len(depths) /\ depths[e + 1] > depths[j]
  THEN SubtreeEnd(depths, j, e + 1) ELSE e

RECURSIVE BuildList(_, _, _, _, _)
BuildList(depths, kinds, f, lo, hi) ==
  IF lo > hi THEN <<>>
  ELSE LET e    == SubtreeEnd(depths, lo, lo)
           kids == BuildList(depths, kinds, f, lo + 1, e)
           node == IF e > lo \/ kinds[lo] = "emptyChilds"
                   THEN Fields(lo, kinds[lo], f) @@ ("childs" :> kids)
                   ELSE Fields(lo, kinds[lo], f)
       IN <<node>> \o BuildList(depths, kinds, f, e + 1, hi)

Shapes(n) ==
  {d \in [1..n -> 0..(n - 1)] :
     /\ n > 0 => d[1] = 0
     /\ \A i \in 1..(n - 1) : d[i + 1] <= d[i] + 1}

KindRows(n) ==
  {k \in [1..n -> Kinds] : Cardinality({i \in 1..n : k[i] # "ok"}) <= MaxSpecial}

Trees ==
  UNION {{BuildList(d, k, f, 1, n) :
            d \in Shapes(n), k \in KindRows(n), f \in RequiredFields} :
           n \in 0..MaxNodes}

(***************************************************************************)
(* Facet server answers.  The k-th facet request of a traversal receives   *)
(* the k-th outcome.  The i-th item of a facet group has its own id and    *)
(* name; in one list the items at some positions miss their id, or miss    *)
(* their name.                                                             *)
(***************************************************************************)
ItemNames == <<"i1", "i2", "i3", "i4", "i5", "i6", "i7", "i8">>

Item(i, broken, key) ==
  [g \in ({"id", "name"} \ (IF i \in broken THEN {key} ELSE {})) |->
     IF g = "id" THEN 90 + i ELSE ItemNames[i]]

ItemLists ==
  UNION {UNION {{[i \in 1..n |-> Item(i, broken, key)] : key \in {"id", "name"}} :
                  broken \in SUBSET (1..n)} :
           n \in 0..MaxItems}

Json(body) == [kind |-> "json", body |-> body]

Transient == {[kind |-> "ServerDisconnectedError"], [kind |-> "ContentTypeError"]}

Outcomes ==
  Transient
  \cup {Json([data |-> [filters |-> <<>>]]),
        Json([other |-> 0]),
        Json([data |-> [filters |-> <<[name |-> CategoryLabel]>>]]),
        Json([data |-> [filters |-> <<[name |-> "Brand",
                                       items |-> <<Item(1, {}, "id")>>]>>]])}
  \cup {Json([data |-> [filters |-> <<[name |-> CategoryLabel, items |-> its],
                                      [name |-> "Brand", items |-> <<>>]>>]]) :
          its \in ItemLists}

DefaultOutcome ==
  Json([data |-> [filters |-> <<[name |-> CategoryLabel,
                                 items |-> <<Item(1, {}, "id")>>]>>]])

(***************************************************************************)
(* node_json (lines 136-183).  st is the pair of the list being filled and *)
(* the facet requests sent so far, with the exception that is propagating. *)
(***************************************************************************)
NewRun0 == [cat |-> <<>>, reqs |-> <<>>, raised |-> NoError]

\* lines 156-158: the URL is built from category['shard'] and category['query']
UrlKeys == {"shard", "query"}

FacetRequest(category) == [shard |-> category.shard, query |-> category.query]

\* a list that grows at the wrong end
ListPrepend(cat, record) == <<record>> \o cat

\* list.append (lines 114 and 171)
ListAppend(cat, record) == Append(cat, record)

\* lines 171-176
FacetRecord(category, info, level) ==
  [parent_name |-> category.name, name |-> info.name,
   level |-> level, id |-> info.id]

\* lines 170-179: an item whose record cannot be built is skipped
ItemOk(info) == {"name", "id"} \subseteq DOMAIN info

\* an item loop that gives up at the first item it cannot use
RECURSIVE ItemLoopBreak(_, _, _, _, _)
ItemLoopBreak(category, items, i, cat, level) ==
  IF i > Len(items) \/ ~ItemOk(items[i]) THEN cat
  ELSE ItemLoopBreak(category, items, i + 1,
                     ListAppend(cat, FacetRecord(category, items[i], level)), level)

RECURSIVE ItemLoop(_, _, _, _, _)
ItemLoop(category, items, i, cat, level) ==
  IF i > Len(items) THEN cat
  ELSE IF ItemOk(items[i])
       THEN ItemLoop(category, items, i + 1,
                     ListAppend(cat, FacetRecord(category, items[i], level)), level)
       ELSE ItemLoop(category, items, i + 1, cat, level)

\* line 168: response['data']['filters'][0]['name'] can be evaluated
FirstGroupReadable(response) ==
  /\ "data" \in DOMAIN response
  /\ "filters" \in DOMAIN response.data
  /\ Len(response.data.filters) >= 1
  /\ "name" \in DOMAIN response.data.filters[1]

\* lines 167-183
InterpretResponse(category, response, cat, level) ==
  IF ~FirstGroupReadable(response) THEN cat
  ELSE LET group == response.data.filters[1]
       IN IF group.name = CategoryLabel
          THEN IF "items" \in DOMAIN group
               THEN ItemLoop(category, group.items, 1, cat, level)
               ELSE cat
          ELSE cat

\* a request error that is not caught
OnTransientRaise(st) == [st EXCEPT !.raised = "ServerDisconnectedError"]

\* lines 160-165: the two request errors are logged and swallowed
OnTransient(st) == st

NodeJson(category, st, level, net) ==
  IF ~(UrlKeys \subseteq DOMAIN category)
  THEN [st EXCEPT !.raised = "KeyError"]
  ELSE LET out == net[Len(st.reqs) + 1]
           st1 == [st EXCEPT !.reqs = Append(@, FacetRequest(category))]
       IN IF out.kind = "json"
          THEN [st1 EXCEPT !.cat = InterpretResponse(category, out.body, @, level)]
          ELSE OnTransient(st1)

(***************************************************************************)
(* traverse_json (lines 92-134).                                           *)
(***************************************************************************)
\* lines 114-121: the keys read while the record is built
RequiredKeys == {"name", "url", "query", "id"}

CategoryRecord(category, level) ==
  [name  |-> category.name,
   url   |-> category.url,
   shard |-> IF "shard" \in DOMAIN category THEN category.shard ELSE DefaultShard,
   query |-> category.query,
   level |-> level,
   id    |-> category.id]

\* line 112
LevelOnEntry(level) == level + 1

\* an except branch that forgets to undo line 112
LevelKept(level) == level

\* lines 123-125
LevelAfterKeyError(level) == level - 1

\* line 134
LevelAtLoopEnd(level) == level - 1

\* line 126
HasChildsKey(category) == "childs" \in DOMAIN category

\* line 130
WantsFacets(category) == ~HasChildsKey(category) /\ category.id # ExcludedId

\* lines 131-133
FacetLevel(level) == level + 1

RECURSIVE TraverseLoop(_, _, _, _, _)
TraverseLoop(parent_category, i, st, level, net) ==
  IF i > Len(parent_category) THEN st
  ELSE
    LET category == parent_category[i]
        lv == LevelOnEntry(level)
    IN IF ~(RequiredKeys \subseteq DOMAIN category)
       THEN TraverseLoop(parent_category, i + 1, st, LevelAfterKeyError(lv), net)
       ELSE
         LET st1 == [st EXCEPT !.cat = ListAppend(@, CategoryRecord(category, lv))]
             st2 == IF HasChildsKey(category)
                    THEN TraverseLoop(category.childs, 1, st1, lv, net)
                    ELSE st1
         IN IF st2.raised # NoError THEN st2
            ELSE
              LET st3 == IF WantsFacets(category)
                         THEN NodeJson(category, st2, FacetLevel(lv), net)
                         ELSE st2
              IN IF st3.raised # NoError THEN st3
                 ELSE TraverseLoop(parent_category, i + 1, st3,
                                   LevelAtLoopEnd(lv), net)

TraverseJson(parent_category, st, level, net) ==
  TraverseLoop(parent_category, 1, st, level, net)

(***************************************************************************)
(* The answers of the facet server to one traversal: the requests a        *)
(* traversal sends do not depend on the answers, so the number of answers  *)
(* is the number of requests sent when every answer is DefaultOutcome.     *)
(* Every request is answered by DefaultOutcome except at most one.         *)
(***************************************************************************)
NumRequests(tree) ==
  Len(TraverseJson(tree, NewRun0, InitialLevel,
                   [k \in 1..MaxNodes |-> DefaultOutcome]).reqs)

AnswerRows(n) ==
  {[k \in 1..n |-> DefaultOutcome]}
  \cup {[k \in 1..n |-> IF k = s THEN o ELSE DefaultOutcome] :
          s \in 1..n, o \in Outcomes}

(***************************************************************************)
(* save_to_excel (lines 186-227).  A workbook is the list of its sheets, a *)
(* sheet is its name and its cells, a function from <<row, col>> to value. *)
(***************************************************************************)
NewWorkbook == [sheets |-> <<>>, row |-> 0, closed |-> FALSE, raised |-> NoError]

\* an offset that ignores the flag
TabLevelAlways(record, tab) == 0 + TabWidth * record.level

\* lines 208-211, with col = 0 (line 200)
TabLevel(record, tab) == IF tab THEN 0 + TabWidth * record.level ELSE 0

\* worksheet.write(row, col, value)
Write(sheet, row, col, value) ==
  [sheet EXCEPT !.cells = (<<row, col>> :> value) @@ @]

\* lines 219-221
WriteRow(sheet, row, tab_level, record) ==
  Write(Write(Write(sheet, row, tab_level, record.level),
              row, tab_level + 1, record.id),
        row, tab_level + 2, record.name)

\* lines 213-217
StartsSheet(record) == record.level = 0

RECURSIVE RecordLoop(_, _, _, _)
RecordLoop(catalogue, i, wb, tab) ==
  IF i > Len(catalogue)
  THEN \* lines 225-226
       IF Len(wb.sheets) = 0
       THEN [wb EXCEPT !.raised = "UnboundLocalError"]
       ELSE [wb EXCEPT !.closed = TRUE]
  ELSE
    LET record == catalogue[i]
        wb1 == IF StartsSheet(record)
               THEN [wb EXCEPT !.sheets = Append(@, [name |-> record.name,
                                                     cells |-> <<>>]),
                               !.row = 0]
               ELSE wb
        n == Len(wb1.sheets)
    IN IF n = 0
       THEN [wb1 EXCEPT !.raised = "UnboundLocalError"]
       ELSE RecordLoop(catalogue, i + 1,
                       [wb1 EXCEPT !.sheets[n] = WriteRow(@, wb1.row,
                                                          TabLevel(record, tab), record),
                                   !.row = @ + 1],
                       tab)

SaveToExcelResult(catalogue, tab) == RecordLoop(catalogue, 1, NewWorkbook, tab)

(***************************************************************************)
(* download_current_catalogue (lines 50-70).                               *)
(***************************************************************************)
NoFile == [exists |-> FALSE, mtime |-> 0, content |-> <<>>]

\* lines 61-63
NeedsDownload(f, rd) == ~f.exists \/ f.mtime > rd

(***************************************************************************)
(* The state machine.                                                      *)
(***************************************************************************)
Init ==
  /\ today = 0
  /\ run_date = 0
  /\ file = NoFile
  /\ fetched = FALSE
  /\ pc = "download"
  /\ tabulation = FALSE
  /\ responses = <<>>
  /\ flattened_catalogue = <<>>
  /\ requests = <<>>
  /\ raised = NoError
  /\ workbook = NewWorkbook

\* __init__ (lines 12-33): a new run of the program
Construct ==
  /\ pc # "download"
  /\ run_date' = today
  /\ pc' = "download"
  /\ fetched' = FALSE
  /\ tabulation' = FALSE
  /\ responses' = <<>>
  /\ flattened_catalogue' = <<>>
  /\ requests' = <<>>
  /\ raised' = NoError
  /\ workbook' = NewWorkbook
  /\ UNCHANGED <<today, file>>

\* the calendar day changes
Tick ==
  /\ today < MaxDay
  /\ today' = today + 1
  /\ UNCHANGED <<run_date, file, fetched, pc, tabulation, responses,
                 flattened_catalogue, requests, raised, workbook>>

DownloadCurrentCatalogue ==
  /\ pc = "download"
  /\ IF NeedsDownload(file, run_date)
     THEN /\ \E tree \in Trees :
               file' = [exists |-> TRUE, mtime |-> today, content |-> tree]
          /\ fetched' = TRUE
     ELSE /\ fetched' = FALSE
          /\ UNCHANGED file
  /\ pc' = "process"
  /\ UNCHANGED <<today, run_date, tabulation, responses, flattened_catalogue,
                 requests, raised, workbook>>

\* process_catalogue (lines 72-90)
ProcessCatalogue ==
  /\ pc = "process"
  /\ \E net \in AnswerRows(NumRequests(file.content)) :
       LET r == TraverseJson(file.content, NewRun0, InitialLevel, net)
       IN /\ responses' = net
          /\ flattened_catalogue' = r.cat
          /\ requests' = r.reqs
          /\ raised' = r.raised
          /\ pc' = IF r.raised = NoError THEN "save" ELSE "failed"
  /\ UNCHANGED <<today, run_date, file, fetched, tabulation, workbook>>

\* run_parser line 249
SaveToExcel ==
  /\ pc = "save"
  /\ \E tab \in BOOLEAN :
       LET wb == SaveToExcelResult(flattened_catalogue, tab)
       IN /\ tabulation' = tab
          /\ workbook' = wb
          /\ raised' = wb.raised
          /\ pc' = IF wb.raised = NoError THEN "done" ELSE "failed"
  /\ UNCHANGED <<today, run_date, file, fetched, responses,
                 flattened_catalogue, requests>>

Next == DownloadCurrentCatalogue \/ ProcessCatalogue \/ SaveToExcel

Spec == Init /\ [][Next]_vars

NextCache == Construct \/ Tick \/ DownloadCurrentCatalogue

SpecCache == Init /\ [][NextCache]_vars

(***************************************************************************)
(* Vocabulary of the properties.                                           *)
(***************************************************************************)
Tree == file.content

\* process_catalogue has run
Processed == pc \in {"save", "done", "failed"}

\* traverse_json ended with an exception
TraversalRaised == Processed /\ pc = "failed" /\ raised # "UnboundLocalError"

IsAug(r) == "parent_name" \in DOMAIN r
NotAug(r) == ~IsAug(r)

WellFormed(n) == \A f \in {"name", "url", "query", "id"} : f \in DOMAIN n

Kids(n) == IF "childs" \in DOMAIN n THEN n.childs ELSE <<>>

\* the nodes the walk is to record, in pre-order, with their depth: the
\* well-formed nodes that are not below a malformed node
RECURSIVE Visited(_, _)
Visited(list, depth) ==
  IF list = <<>> THEN <<>>
  ELSE LET n == Head(list)
       IN (IF WellFormed(n)
           THEN <<[node |-> n, depth |-> depth]>> \o Visited(Kids(n), depth + 1)
           ELSE <<>>)
          \o Visited(Tail(list), depth)

\* the malformed nodes and all nodes below them
RECURSIVE Skipped(_, _)
Skipped(list, below) ==
  IF list = <<>> THEN <<>>
  ELSE LET n == Head(list)
           out == below \/ ~WellFormed(n)
       IN (IF out THEN <<n>> ELSE <<>>)
          \o Skipped(Kids(n), out) \o Skipped(Tail(list), below)

\* the tree with every malformed node removed from its child list
RECURSIVE Prune(_)
Prune(list) ==
  IF list = <<>> THEN <<>>
  ELSE LET n == Head(list)
       IN (IF WellFormed(n)
           THEN <<IF "childs" \in DOMAIN n
                  THEN [n EXCEPT !.childs = Prune(n.childs)] ELSE n>>
           ELSE <<>>)
          \o Prune(Tail(list))

Range(seq) == {seq[i] : i \in 1..Len(seq)}

IsPrefix(a, b) == Len(a) <= Len(b) /\ \A i \in 1..Len(a) : a[i] = b[i]

Map1(seq, Op(_)) == [i \in 1..Len(seq) |-> Op(seq[i])]

NameOf(r) == r.name
Owner(r) == IF IsAug(r) THEN r.parent_name ELSE r.name
VisitedName(v) == v.node.name

\* the augmented records of the leaf called leaf
BlockOf(cat, leaf) ==
  LET Mine(r) == IsAug(r) /\ r.parent_name = leaf IN SelectSeq(cat, Mine)

\* the name of the node that sent the k-th facet request
LeafOfRequest(cat, reqs, k) ==
  (CHOOSE r \in Range(cat) : NotAug(r) /\ r.query = reqs[k].query).name

(***************************************************************************)
(* C1: for every input tree, traverse_json started with level -1 on an     *)
(* empty list produces exactly one non-augmented record per well-formed    *)
(* node (a node of a skipped subtree is no node of the walk), whose level  *)
(* is the depth of the node, top-level nodes at level 0.                   *)
(***************************************************************************)
NoC1 ==
  Processed =>
    LET plain == SelectSeq(flattened_catalogue, NotAug)
        nodes == Visited(Tree, 0)
    IN /\ Len(plain) = Len(nodes)
       /\ {<<r.name, r.level>> : r \in Range(plain)}
            = {<<v.node.name, v.depth>> : v \in Range(nodes)}

(***************************************************************************)
(* C5: no failure of a single node or facet item escapes traverse_json: it *)
(* never raises, a leaf without shard is recorded with shard 99999, and    *)
(* every node after it is still recorded.                                  *)
(***************************************************************************)
NoC5 ==
  Processed =>
    /\ ~TraversalRaised
    /\ \A v \in Range(Visited(Tree, 0)) :
         \E r \in Range(flattened_catalogue) :
           /\ NotAug(r) /\ r.name = v.node.name
           /\ "shard" \notin DOMAIN v.node => r.shard = DefaultShard

(***************************************************************************)
(* C7: a node with the excluded id sends no facet request and gets no      *)
(* augmented record, but has its own record at its depth; without children *)
(* it contributes exactly one record.                                      *)
(***************************************************************************)
NoC7 ==
  Processed =>
    \A v \in Range(Visited(Tree, 0)) :
      v.node.id = ExcludedId =>
        /\ \A q \in Range(requests) : q.query # v.node.query
        /\ BlockOf(flattened_catalogue, v.node.name) = <<>>
        /\ Cardinality({i \in 1..Len(flattened_catalogue) :
                          Owner(flattened_catalogue[i]) = v.node.name}) = 1
        /\ \E r \in Range(flattened_catalogue) :
             NotAug(r) /\ r.name = v.node.name /\ r.level = v.depth

(***************************************************************************)
(* C10: one traversal sends exactly one facet request, with the node's     *)
(* shard and query, for every recorded node whose child list is absent or  *)
(* empty and whose id is not the excluded id, and none for a node that has *)
(* at least one child.                                                     *)
(***************************************************************************)
Childless(n) == Kids(n) = <<>>

NoC10 ==
  Processed =>
    LET IsLeaf(v) == Childless(v.node) /\ v.node.id # ExcludedId
        leaves == SelectSeq(Visited(Tree, 0), IsLeaf)
    IN /\ Len(requests) = Len(leaves)
       /\ \A k \in 1..Len(leaves) :
            /\ requests[k].query = leaves[k].node.query
            /\ "shard" \in DOMAIN leaves[k].node
                 => requests[k].shard = leaves[k].node.shard

(***************************************************************************)
(* C8: a run of download_current_catalogue fetches and rewrites the file   *)
(* exactly when the file is absent or was last modified on a day before    *)
(* the run date; a file modified on the run date is reused.                *)
(***************************************************************************)
Stale(f, rd) == ~f.exists \/ f.mtime < rd

NoC8 ==
  [][(pc = "download" /\ pc' = "process") =>
       /\ fetched' <=> Stale(file, run_date)
       /\ ~fetched' => file' = file]_vars

(***************************************************************************)
(* C2: the output is in pre-order.  The non-augmented records are the      *)
(* recorded nodes in pre-order of the input child order, the records of a  *)
(* node (its own and its augmented ones) are contiguous, and an augmented  *)
(* record directly follows its leaf's record or another augmented record   *)
(* of the same leaf.                                                       *)
(***************************************************************************)
RECURSIVE Collapse(_)
Collapse(seq) ==
  IF Len(seq) <= 1 THEN seq
  ELSE IF seq[1] = seq[2] THEN Collapse(Tail(seq))
       ELSE <<seq[1]>> \o Collapse(Tail(seq))

PreOrderC2 ==
  Processed =>
    LET cat   == flattened_catalogue
        order == Map1(Visited(Tree, 0), VisitedName)
        plain == Map1(SelectSeq(cat, NotAug), NameOf)
    IN /\ IsPrefix(plain, order)
       /\ ~TraversalRaised => plain = order
       /\ Collapse(Map1(cat, Owner)) = plain
       /\ \A i \in 1..Len(cat) :
            IsAug(cat[i]) =>
              /\ i > 1
              /\ Owner(cat[i - 1]) = cat[i].parent_name
              /\ cat[i - 1].level = cat[i].level - (IF IsAug(cat[i - 1]) THEN 0 ELSE 1)

\* an augmented leaf is followed by a later node, below a recorded parent
WitnessC2 ==
  /\ Processed
  /\ Len(flattened_catalogue) >= 4
  /\ NotAug(flattened_catalogue[2]) /\ flattened_catalogue[2].level = 1
  /\ IsAug(flattened_catalogue[3])
  /\ NotAug(flattened_catalogue[4])

(***************************************************************************)
(* C3: a node missing name, url, query or id yields no record for itself   *)
(* or its subtree and no facet request, and the rest of the output is what *)
(* the tree without the malformed nodes gives.                             *)
(***************************************************************************)
MalformedC3 ==
  Processed =>
    LET pruned == TraverseJson(Prune(Tree), NewRun0, InitialLevel, responses)
    IN /\ pruned.cat = flattened_catalogue
       /\ pruned.reqs = requests
       /\ (pruned.raised # NoError) <=> TraversalRaised
       /\ \A n \in Range(Skipped(Tree, FALSE)) :
            /\ "name" \in DOMAIN n =>
                 \A r \in Range(flattened_catalogue) : Owner(r) # n.name
            /\ "query" \in DOMAIN n =>
                 \A q \in Range(requests) : q.query # n.query

\* a malformed node with a node below it, and a recorded sibling after it
WitnessC3 ==
  /\ Processed
  /\ Len(Tree) >= 2
  /\ ~WellFormed(Tree[1]) /\ Kids(Tree[1]) # <<>>
  /\ \E r \in Range(flattened_catalogue) :
       "name" \in DOMAIN Tree[2] /\ r.name = Tree[2].name /\ r.level = 0

(***************************************************************************)
(* C4: a server disconnect or a wrong content type in the facet call of    *)
(* one leaf removes the augmented records of that leaf and changes nothing *)
(* else: the same requests are sent, no error is added, and all other      *)
(* records are the records of the run without the failure, in order.       *)
(***************************************************************************)
IsolationC4 ==
  Processed =>
    \A k \in 1..Len(requests) : \A f \in Transient :
      LET failing == TraverseJson(Tree, NewRun0, InitialLevel,
                                  [responses EXCEPT ![k] = f])
          leaf == LeafOfRequest(flattened_catalogue, requests, k)
          Others(r) == ~(IsAug(r) /\ r.parent_name = leaf)
      IN /\ failing.cat = SelectSeq(flattened_catalogue, Others)
         /\ BlockOf(failing.cat, leaf) = <<>>
         /\ failing.reqs = requests
         /\ (failing.raised # NoError) => TraversalRaised

\* a run in which one leaf's facet call failed and another leaf was augmented
WitnessC4 ==
  /\ Processed /\ ~TraversalRaised
  /\ \E k \in 1..Len(requests) :
       /\ responses[k] \in Transient
       /\ BlockOf(flattened_catalogue,
                  LeafOfRequest(flattened_catalogue, requests, k)) = <<>>
  /\ \E r \in Range(flattened_catalogue) : IsAug(r)

(***************************************************************************)
(* C6: the augmented records of a leaf are, when the first facet group of  *)
(* its response has the category label, one record per item that has both  *)
(* id and name, in item order, with the item's name and id, the leaf's     *)
(* name as parent_name and the leaf's level + 1; otherwise none.           *)
(***************************************************************************)
Complete(info) == "id" \in DOMAIN info /\ "name" \in DOMAIN info

CategoryItems(outcome) ==
  IF outcome.kind # "json" THEN <<>>
  ELSE IF "data" \notin DOMAIN outcome.body THEN <<>>
  ELSE LET groups == outcome.body.data.filters
       IN IF groups = <<>> THEN <<>>
          ELSE IF groups[1].name # CategoryLabel THEN <<>>
          ELSE IF "items" \notin DOMAIN groups[1] THEN <<>>
          ELSE SelectSeq(groups[1].items, Complete)

AugmentC6 ==
  Processed =>
    \A k \in 1..Len(requests) :
      LET cat   == flattened_catalogue
          leaf  == CHOOSE r \in Range(cat) : NotAug(r) /\ r.query = requests[k].query
          items == CategoryItems(responses[k])
      IN BlockOf(cat, leaf.name) =
           [i \in 1..Len(items) |->
              [parent_name |-> leaf.name, name |-> items[i].name,
               level |-> leaf.level + 1, id |-> items[i].id]]

\* an unusable item before a usable one: only the second is emitted
WitnessC6 ==
  /\ Processed
  /\ \E k \in 1..Len(requests) :
       /\ responses[k].kind = "json"
       /\ "data" \in DOMAIN responses[k].body
       /\ Len(responses[k].body.data.filters) >= 1
       /\ "items" \in DOMAIN responses[k].body.data.filters[1]
       /\ LET items == responses[k].body.data.filters[1].items
          IN /\ responses[k].body.data.filters[1].name = CategoryLabel
             /\ Len(items) = 2 /\ ~Complete(items[1]) /\ Complete(items[2])
             /\ Len(BlockOf(flattened_catalogue,
                    LeafOfRequest(flattened_catalogue, requests, k))) = 1

(***************************************************************************)
(* C9: save_to_excel makes one sheet per level-0 record, named after it,   *)
(* and writes each record as the row level, id, name of the sheet of the   *)
(* nearest preceding level-0 record; rows count from 0 in each sheet; the  *)
(* columns start at 3 x level with tabulation and at 0 without; nothing    *)
(* else is written.                                                        *)
(***************************************************************************)
Saved == workbook # NewWorkbook

Starts(cat, i) == {j \in 1..i : cat[j].level = 0}

Max(S) == CHOOSE x \in S : \A y \in S : y <= x

ExportC9 ==
  Saved =>
    LET cat == flattened_catalogue
        wb  == workbook
        Col(i) == IF tabulation THEN 3 * cat[i].level ELSE 0
        Sheet(i) == Cardinality(Starts(cat, i))
        Row(i) == i - Max(Starts(cat, i))
    IN /\ Len(wb.sheets) = Cardinality(Starts(cat, Len(cat)))
       /\ wb.closed <=> cat # <<>>
       /\ \A i \in 1..Len(cat) :
            LET sh == wb.sheets[Sheet(i)]
            IN /\ sh.name = cat[Max(Starts(cat, i))].name
               /\ {<<Row(i), Col(i)>>, <<Row(i), Col(i) + 1>>, <<Row(i), Col(i) + 2>>}
                    \subseteq DOMAIN sh.cells
               /\ sh.cells[<<Row(i), Col(i)>>] = cat[i].level
               /\ sh.cells[<<Row(i), Col(i) + 1>>] = cat[i].id
               /\ sh.cells[<<Row(i), Col(i) + 2>>] = cat[i].name
       /\ \A s \in 1..Len(wb.sheets) :
            DOMAIN wb.sheets[s].cells =
              UNION {{<<Row(i), Col(i) + d>> : d \in 0..2} :
                       i \in {j \in 1..Len(cat) : Sheet(j) = s}}

\* an indented export with two sheets and a row at level 2
WitnessC9 ==
  /\ pc = "done" /\ tabulation
  /\ Len(workbook.sheets) = 2
  /\ <<2, 6>> \in DOMAIN workbook.sheets[1].cells
  /\ <<0, 0>> \in DOMAIN workbook.sheets[2].cells

====
